---- MODULE Spec2Model ----
(***************************************************************************)
(* A model of stream.py, the Streamlit page "Diagnostic Cutane             *)
(* Intelligent": download_model, load_model, SkinDiseaseTransform,         *)
(* predict and main.                                                       *)
(*                                                                         *)
(* Three specifications share the operators below:                         *)
(*   SpecTransform  SkinDiseaseTransform.__call__ on bounded images        *)
(*   SpecPredict    predict and the diagnosis of main on bounded label     *)
(*                  sets and classifier outputs                            *)
(*   Spec           the page: script runs of several sessions over the     *)
(*                  two st.cache_resource caches, the weight file and      *)
(*                  the loaded classifier                                  *)
(***************************************************************************)
EXTENDS Integers, Sequences, FiniteSets, TLC

None == "None"

(***************************************************************************)
(* Images.  An image is [mode, size, px]: a PIL mode, <<width, height>>    *)
(* and one entry of px per pixel column (the horizontal flip permutes      *)
(* columns and leaves rows alone, so a column is kept as one value).       *)
(***************************************************************************)
MaxW == 3
MaxH == 2
IMG_SIZE == 224
FLIP_P == 100

Modes == {"L", "P", "RGB", "RGBA"}
Pixels == {0, 1}
\* torch.rand(1) draws from [0, 1): in hundredths
RandDraws == {0, 50, 99}

Channels(mode) ==
  CASE mode = "RGB" -> 3
    [] mode = "RGBA" -> 4
    [] mode = "L" -> 1
    [] mode = "P" -> 1

Images(maxw, maxh) ==
  UNION { { [mode |-> m, size |-> <<w, h>>, px |-> p] : m \in Modes, p \in [1..w -> Pixels] }
          : w \in 1..maxw, h \in 1..maxh }

\* img.resize((w, h)): the result has exactly the requested size whatever the
\* source size; column x samples the source column it falls on
resize(img, w, h) ==
  [mode |-> img.mode,
   size |-> <<w, h>>,
   px   |-> [x \in 1..w |-> img.px[(((x - 1) * img.size[1]) \div w) + 1]]]

\* F.hflip: column x of the result is column width + 1 - x of the image
hflip(img) ==
  [mode |-> img.mode,
   size |-> img.size,
   px   |-> [x \in 1..img.size[1] |-> img.px[img.size[1] + 1 - x]]]

\* transforms.RandomHorizontalFlip(p=1.0): flips when torch.rand(1) < p
augmentation(img, r) == IF r < FLIP_P THEN hflip(img) ELSE img

\* transforms.ToTensor: channels x height x width, one channel per band of the mode
ToTensor(img) ==
  [shape |-> <<Channels(img.mode), img.size[2], img.size[1]>>, data |-> img.px]

\* mean and std of transforms.Normalize, in thousandths
NORM_MEAN == <<485, 456, 406>>
NORM_STD == <<229, 224, 225>>

\* transforms.Normalize: (value - mean_c) / std_c per channel, as <<numerator,
\* denominator>> in thousandths; raises when the tensor's channel count is not
\* that of mean and std
Normalize(t) ==
  IF t.shape[1] # Len(NORM_MEAN)
    THEN [ok |-> FALSE, error |-> "RuntimeError"]
    ELSE [ok |-> TRUE,
          tensor |-> [shape |-> t.shape,
                      data |-> [c \in 1..t.shape[1] |->
                                  [x \in 1..t.shape[3] |->
                                     <<(t.data[x] * 1000) - NORM_MEAN[c], NORM_STD[c]>>]]]]

\* self.base_transform: Resize((224, 224)), ToTensor, Normalize
base_transform(img) == Normalize(ToTensor(resize(img, IMG_SIZE, IMG_SIZE)))

\* SkinDiseaseTransform.__call__(img, apply_augmentation); r is what torch.rand
\* draws inside RandomHorizontalFlip
SkinDiseaseTransform_call(img, apply_augmentation, r) ==
  LET img_resized == resize(img, IMG_SIZE, IMG_SIZE)
      img_flipped == IF apply_augmentation THEN augmentation(img_resized, r) ELSE img_resized
      t == base_transform(img_flipped)
  IN  IF t.ok
        THEN [ok |-> TRUE, original |-> img, resized |-> img_resized,
              flipped |-> img_flipped, tensor |-> t.tensor]
        ELSE [ok |-> FALSE, error |-> t.error]


(***************************************************************************)
(* predict and the diagnosis of main.  A logit is kept as [ln |-> k], the  *)
(* real number ln k, so that exp of it is the integer k and a probability  *)
(* is the exact fraction <<numerator, denominator>>.                       *)
(***************************************************************************)
MaxLabels == 2
MaxClasses == 2
COIN == 50
THRESHOLD_NUM == 95
THRESHOLD_DEN == 100

LabelNames == {"acne", "eczema", "rosacea"}
LogitWeights == {1, 19, 50001, 949999}
Logits == { [ln |-> k] : k \in LogitWeights }

SeqsUpTo(S, n) == UNION { [1..k -> S] : k \in 0..n }

Exp(l) == l.ln

RECURSIVE SumExp(_, _)
SumExp(v, n) == IF n = 0 THEN 0 ELSE Exp(v[n]) + SumExp(v, n - 1)

\* a mutant of softmax: normalised over the batch dimension (dim=0), where
\* each score stands alone
softmax_dim0(v) == [i \in 1..Len(v) |-> <<1, 1>>]

\* torch.nn.functional.softmax(outputs, dim=1): exp(v_i) / sum_j exp(v_j)
softmax(v) == [i \in 1..Len(v) |-> <<Exp(v[i]), SumExp(v, Len(v))>>]

\* comparisons of fractions with positive denominators (fractions of one
\* denominator are compared by their numerators)
FracLt(a, b) == IF a[2] = b[2] THEN a[1] < b[1] ELSE a[1] * b[2] < b[1] * a[2]
FracEq(a, b) == IF a[2] = b[2] THEN a[1] = b[1] ELSE a[1] * b[2] = b[1] * a[2]

\* d[k] = v on a dict kept as its items in insertion order: a key already
\* present keeps its place and takes the new value
DictSet(d, k, v) ==
  IF \E i \in 1..Len(d) : d[i][1] = k
    THEN [i \in 1..Len(d) |-> IF d[i][1] = k THEN <<k, v>> ELSE d[i]]
    ELSE Append(d, <<k, v>>)

\* {class_names[i]: float(probabilities[0][i]) for i in range(n)}
RECURSIVE Comprehension(_, _, _)
Comprehension(class_names, probabilities, n) ==
  IF n = 0 THEN <<>>
  ELSE DictSet(Comprehension(class_names, probabilities, n - 1),
               class_names[n], probabilities[n])

\* random.random() > 0.5, on the draw r0 in hundredths
Coin(r0) == r0 > COIN

\* predict(image, model, class_names); outputs is what the forward pass
\* model(tensor) returns, r0 and r the draws of random.random and torch.rand
predict(image, outputs, class_names, r0, r) ==
  LET transformed == SkinDiseaseTransform_call(image, Coin(r0), r)
  IN  IF ~transformed.ok
        THEN [ok |-> FALSE, error |-> transformed.error]
        ELSE LET probabilities == softmax(outputs)
             IN  IF Len(class_names) > Len(probabilities)
                   THEN [ok |-> FALSE, error |-> "IndexError"]
                   ELSE [ok |-> TRUE,
                         confidences |-> Comprehension(class_names, probabilities,
                                                       Len(class_names))]

\* max(confidences.items(), key=lambda x: x[1]): the first item of largest value
RECURSIVE MaxItem(_, _)
MaxItem(items, n) ==
  IF n = 1 THEN items[1]
  ELSE LET m == MaxItem(items, n - 1)
       IN  IF FracLt(m[2], items[n][2]) THEN items[n] ELSE m

\* str.capitalize on the label names
capitalize(name) ==
  CASE name = "acne" -> "Acne"
    [] name = "eczema" -> "Eczema"
    [] name = "rosacea" -> "Rosacea"

Threshold == <<THRESHOLD_NUM, THRESHOLD_DEN>>

\* a mutant of BelowThreshold: the boundary itself rejected
BelowThreshold_le(c) == FracLt(c, Threshold) \/ FracEq(c, Threshold)

\* max_confidence < 0.95
BelowThreshold(c) == FracLt(c, Threshold)

\* max_confidence >= 0.95
AtLeastThreshold(c) == ~FracLt(c, Threshold)

\* the body of the try block of main: predict, the diagnosis and the advice
analyse(image, outputs, class_names, r0, r) ==
  LET p == predict(image, outputs, class_names, r0, r)
  IN  IF ~p.ok THEN [status |-> "error", message |-> p.error]
      ELSE IF Len(p.confidences) = 0 THEN [status |-> "error", message |-> "ValueError"]
      ELSE LET best == MaxItem(p.confidences, Len(p.confidences))
               predicted_class == best[1]
               max_confidence == best[2]
           IN  [status |-> "ok",
                confidences |-> p.confidences,
                max_confidence |-> max_confidence,
                display_class |-> IF BelowThreshold(max_confidence)
                                    THEN "Néant" ELSE capitalize(predicted_class),
                advice |-> IF AtLeastThreshold(max_confidence)
                             THEN (IF predicted_class = "acne" THEN "acne"
                                   ELSE IF predicted_class = "eczema" THEN "eczema"
                                   ELSE None)
                             ELSE None]

VARIABLES
  t_img, t_aug, t_rand, t_out,          \* SpecTransform: inputs and result of a transform call
  p_image, p_names, p_outputs, p_res,   \* SpecPredict: inputs and result of an analysis
  fileExists,   \* os.path.exists("hybrid_skin_disease_model1.pth")
  fetchCount,   \* calls of gdown.download so far
  dlCache,      \* st.cache_resource of download_model: None or the cached path
  lmCache,      \* st.cache_resource of load_model: 0 or the cached model object
  dlLock,       \* the session computing download_model's value, or 0
  lmLock,       \* the session computing load_model's value, or 0
  objects,      \* the HybridModel objects alive in the process, by identity
  initCount,    \* completed runs of load_model's body in this process
  returned,     \* the objects load_model has returned in this process
  ss,           \* per session: its script run's position and locals, its widgets
  runs,         \* script runs started so far
  restarts      \* process restarts so far

trVars == <<t_img, t_aug, t_rand, t_out>>
prVars == <<p_image, p_names, p_outputs, p_res>>
appVars == <<fileExists, fetchCount, dlCache, lmCache, dlLock, lmLock, objects,
             initCount, returned, ss, runs, restarts>>
vars == <<trVars, prVars, appVars>>

\* before the call
NotCalled == [called |-> FALSE]
BlankImage == [mode |-> "RGB", size |-> <<1, 1>>, px |-> <<0>>]

TrIdle ==
  /\ t_img = BlankImage /\ t_aug = FALSE /\ t_rand = 0 /\ t_out = NotCalled
PrIdle ==
  /\ p_image = BlankImage /\ p_names = <<>> /\ p_outputs = <<>> /\ p_res = NotCalled


(***************************************************************************)
(* The page.  Every user interaction starts a script run of main() in the  *)
(* session's thread; runs of different sessions interleave.                *)
(***************************************************************************)
NumSessions == 2
MaxRuns == 2
MaxRestarts == 1
NUM_CLASSES == 2

Sessions == 1..NumSessions
OUTPUT == "hybrid_skin_disease_model1.pth"
class_names == <<"acne", "eczema">>

\* what gdown.download can do: write the file, raise, or report the failure
\* and return None (its result is not looked at)
GdownOutcomes == {"ok", "raise", "none"}

\* the uploader's file: none, bytes PIL cannot decode, or an image
NoFile == [kind |-> "none"]
Malformed == [kind |-> "malformed"]
UploadModes == {"L", "RGB", "RGBA"}
UploadImages == { [mode |-> m, size |-> <<1, 1>>, px |-> <<0>>] : m \in UploadModes }
Uploads == {Malformed} \cup { [kind |-> "image", image |-> i] : i \in UploadImages }

\* what the forward pass can return for NUM_CLASSES classes
MainOutputs == { <<[ln |-> 1], [ln |-> 1]>>, <<[ln |-> 19], [ln |-> 1]>>,
                 <<[ln |-> 1], [ln |-> 19]>> }

\* object identities: the least one not in use
NoObjects == [i \in {} |-> 0]
NewId(objs) == CHOOSE i \in 1..(Cardinality(DOMAIN objs) + 1) :
                 i \notin DOMAIN objs /\ \A j \in 1..(i - 1) : j \in DOMAIN objs

NewSession ==
  [pc |-> "idle", uploaded |-> NoFile, clicked |-> FALSE, model_path |-> None,
   model |-> 0, fetch |-> "none", load |-> "none", outcome |-> "none",
   failure |-> "none", display |-> None]

AppIdle ==
  /\ fileExists = FALSE /\ fetchCount = 0
  /\ dlCache = None /\ lmCache = 0 /\ dlLock = 0 /\ lmLock = 0
  /\ objects = NoObjects /\ initCount = 0 /\ returned = {}
  /\ ss = [s \in Sessions |-> NewSession]
  /\ runs = 0 /\ restarts = 0

Init == AppIdle /\ TrIdle /\ PrIdle

\* the button "Analyser l'image" is on the page when the last run reached it
ButtonShown(s) == ss[s].outcome \in {"ready", "diagnosed", "analysis_failed"}

\* a user interaction: a page load, a file put into the uploader, or a click
Rerun(s) ==
  /\ ss[s].pc = "idle"
  /\ runs < MaxRuns
  /\ runs' = runs + 1
  /\ \E up \in {ss[s].uploaded} \cup Uploads, click \in BOOLEAN :
       /\ click => (ButtonShown(s) /\ up = ss[s].uploaded)
       /\ ss' = [ss EXCEPT ![s] = [NewSession EXCEPT !.pc = "download",
                                                     !.uploaded = up,
                                                     !.clicked = click]]
  /\ UNCHANGED <<fileExists, fetchCount, dlCache, lmCache, dlLock, lmLock, objects,
                 initCount, returned, restarts, trVars, prVars>>

\* a mutant of compute_value_lock_free: no lock around the computation
compute_value_lock_absent(lock) == TRUE

\* st.cache_resource computes a missing value under the function's lock
compute_value_lock_free(lock) == lock = 0

\* a mutant of needs_download: the file fetched whether or not it exists
needs_download_always(exists) == TRUE

\* if not os.path.exists(output)
needs_download(exists) == ~exists

\* download_model(), the cache read before the lock
DlLookup(s) ==
  /\ ss[s].pc = "download"
  /\ ss' = [ss EXCEPT ![s] =
              IF dlCache # None
                THEN [@ EXCEPT !.pc = "load", !.model_path = dlCache, !.fetch = "cached"]
                ELSE [@ EXCEPT !.pc = "dl_wait"]]
  /\ UNCHANGED <<fileExists, fetchCount, dlCache, lmCache, dlLock, lmLock, objects,
                 initCount, returned, runs, restarts, trVars, prVars>>

\* download_model(), the lock taken and the cache read again
DlEnter(s) ==
  /\ ss[s].pc = "dl_wait"
  /\ compute_value_lock_free(dlLock)
  /\ IF dlCache # None
       THEN /\ ss' = [ss EXCEPT ![s] = [@ EXCEPT !.pc = "load", !.model_path = dlCache,
                                                 !.fetch = "cached"]]
            /\ UNCHANGED dlLock
       ELSE /\ ss' = [ss EXCEPT ![s] = [@ EXCEPT !.pc = "dl_body"]]
            /\ dlLock' = s
  /\ UNCHANGED <<fileExists, fetchCount, dlCache, lmCache, lmLock, objects,
                 initCount, returned, runs, restarts, trVars, prVars>>

\* the body of download_model and the cache write that follows its return
download_model(s) ==
  /\ ss[s].pc = "dl_body"
  /\ \E o \in GdownOutcomes :
       LET fetched == needs_download(fileExists)
           raised == fetched /\ o = "raise"
           fetch == IF ~fetched THEN "skipped" ELSE IF o = "ok" THEN "ok" ELSE "failed"
       IN  /\ ~fetched => o = "ok"
           /\ fetchCount' = IF fetched THEN fetchCount + 1 ELSE fetchCount
           /\ fileExists' = (fileExists \/ (fetched /\ o = "ok"))
           /\ dlCache' = IF raised THEN dlCache ELSE OUTPUT
           /\ ss' = [ss EXCEPT ![s] =
                       IF raised
                         THEN [@ EXCEPT !.pc = "idle", !.fetch = fetch,
                                        !.outcome = "exception", !.failure = "download"]
                         ELSE [@ EXCEPT !.pc = "load", !.fetch = fetch,
                                        !.model_path = OUTPUT]]
  /\ dlLock' = 0
  /\ UNCHANGED <<lmCache, lmLock, objects, initCount, returned, runs, restarts,
                 trVars, prVars>>

\* load_model(model_path, num_classes), the cache read before the lock
LmLookup(s) ==
  /\ ss[s].pc = "load"
  /\ ss' = [ss EXCEPT ![s] =
              IF lmCache # 0
                THEN [@ EXCEPT !.pc = "page", !.model = lmCache, !.load = "cached"]
                ELSE [@ EXCEPT !.pc = "lm_wait"]]
  /\ returned' = IF lmCache # 0 THEN returned \cup {lmCache} ELSE returned
  /\ UNCHANGED <<fileExists, fetchCount, dlCache, lmCache, dlLock, lmLock, objects,
                 initCount, runs, restarts, trVars, prVars>>

\* load_model, the lock taken and the cache read again
LmEnter(s) ==
  /\ ss[s].pc = "lm_wait"
  /\ compute_value_lock_free(lmLock)
  /\ IF lmCache # 0
       THEN /\ ss' = [ss EXCEPT ![s] = [@ EXCEPT !.pc = "page", !.model = lmCache,
                                                 !.load = "waited"]]
            /\ returned' = returned \cup {lmCache}
            /\ UNCHANGED lmLock
       ELSE /\ ss' = [ss EXCEPT ![s] = [@ EXCEPT !.pc = "lm_construct"]]
            /\ lmLock' = s
            /\ UNCHANGED returned
  /\ UNCHANGED <<fileExists, fetchCount, dlCache, lmCache, dlLock, objects,
                 initCount, runs, restarts, trVars, prVars>>

\* nn.Module.__init__ leaves a new module in training mode
HybridModel(num_classes) == [num_classes |-> num_classes, training |-> TRUE, loaded |-> FALSE]

\* a mutant of eval: the call left out
eval_missing(m) == m

\* model.eval()
eval(m) == [m EXCEPT !.training = FALSE]

\* model = HybridModel(num_classes)
LmConstruct(s) ==
  /\ ss[s].pc = "lm_construct"
  /\ objects' = [i \in DOMAIN objects \cup {NewId(objects)} |->
                   IF i \in DOMAIN objects THEN objects[i] ELSE HybridModel(NUM_CLASSES)]
  /\ ss' = [ss EXCEPT ![s] = [@ EXCEPT !.pc = "lm_load", !.model = NewId(objects)]]
  /\ UNCHANGED <<fileExists, fetchCount, dlCache, lmCache, dlLock, lmLock,
                 initCount, returned, runs, restarts, trVars, prVars>>

\* model.load_state_dict(torch.load(model_path, ...)): raises when the file is
\* not there, and the exception leaves the with-block of the lock and ends the
\* run; the new object is dropped
LmLoadState(s) ==
  /\ ss[s].pc = "lm_load"
  /\ IF fileExists
       THEN /\ objects' = [objects EXCEPT ![ss[s].model] = [@ EXCEPT !.loaded = TRUE]]
            /\ ss' = [ss EXCEPT ![s] = [@ EXCEPT !.pc = "lm_eval"]]
            /\ UNCHANGED lmLock
       ELSE /\ ss' = [ss EXCEPT ![s] = [@ EXCEPT !.pc = "idle", !.model = 0,
                                                 !.outcome = "exception",
                                                 !.failure = "load"]]
            /\ lmLock' = 0
            /\ objects' = [i \in DOMAIN objects \ {ss[s].model} |-> objects[i]]
  /\ UNCHANGED <<fileExists, fetchCount, dlCache, lmCache, dlLock,
                 initCount, returned, runs, restarts, trVars, prVars>>

\* model.eval(); return model, and the cache write that follows the return
LmEval(s) ==
  /\ ss[s].pc = "lm_eval"
  /\ objects' = [objects EXCEPT ![ss[s].model] = eval(@)]
  /\ lmCache' = ss[s].model
  /\ initCount' = initCount + 1
  /\ returned' = returned \cup {ss[s].model}
  /\ lmLock' = 0
  /\ ss' = [ss EXCEPT ![s] = [@ EXCEPT !.pc = "page", !.load = "computed"]]
  /\ UNCHANGED <<fileExists, fetchCount, dlCache, dlLock, runs, restarts,
                 trVars, prVars>>

\* main from the uploader to the button: Image.open and st.image of the
\* uploaded file stand outside the try block
Page(s) ==
  /\ ss[s].pc = "page"
  /\ ss' = [ss EXCEPT ![s] =
              IF @.uploaded.kind = "none"
                THEN [@ EXCEPT !.pc = "idle", !.outcome = "no_file"]
              ELSE IF @.uploaded.kind = "malformed"
                THEN [@ EXCEPT !.pc = "idle", !.outcome = "exception", !.failure = "image"]
              ELSE IF @.clicked
                THEN [@ EXCEPT !.pc = "predict"]
                ELSE [@ EXCEPT !.pc = "idle", !.outcome = "ready"]]
  /\ UNCHANGED <<fileExists, fetchCount, dlCache, lmCache, dlLock, lmLock, objects,
                 initCount, returned, runs, restarts, trVars, prVars>>

\* the try block of main: predict, the diagnosis, and the except clause
Predict(s) ==
  /\ ss[s].pc = "predict"
  /\ \E outputs \in MainOutputs, r0 \in RandDraws, r \in RandDraws :
       LET res == analyse(ss[s].uploaded.image, outputs, class_names, r0, r)
       IN  ss' = [ss EXCEPT ![s] =
                    IF res.status = "ok"
                      THEN [@ EXCEPT !.pc = "idle", !.outcome = "diagnosed",
                                     !.display = res.display_class]
                      ELSE [@ EXCEPT !.pc = "idle", !.outcome = "analysis_failed",
                                     !.failure = "analysis"]]
  /\ UNCHANGED <<fileExists, fetchCount, dlCache, lmCache, dlLock, lmLock, objects,
                 initCount, returned, runs, restarts, trVars, prVars>>

\* the process stops and starts again: the caches, the sessions and the
\* objects go, the weight file stays on disk
Restart ==
  /\ restarts < MaxRestarts
  /\ restarts' = restarts + 1
  /\ dlCache' = None /\ lmCache' = 0 /\ dlLock' = 0 /\ lmLock' = 0
  /\ objects' = NoObjects /\ initCount' = 0 /\ returned' = {}
  /\ ss' = [s \in Sessions |-> NewSession]
  /\ UNCHANGED <<fileExists, fetchCount, runs, trVars, prVars>>

Next ==
  \/ \E s \in Sessions :
       \/ Rerun(s)
       \/ DlLookup(s) \/ DlEnter(s) \/ download_model(s)
       \/ LmLookup(s) \/ LmEnter(s) \/ LmConstruct(s) \/ LmLoadState(s) \/ LmEval(s)
       \/ Page(s) \/ Predict(s)
  \/ Restart

Spec == Init /\ [][Next]_vars

(***************************************************************************)
(* SpecTransform                                                           *)
(***************************************************************************)
InitTransform ==
  /\ t_img \in Images(MaxW, MaxH)
  /\ t_aug = FALSE /\ t_rand = 0 /\ t_out = NotCalled
  /\ PrIdle /\ AppIdle

Transform ==
  \E a \in BOOLEAN, r \in RandDraws :
    /\ t_aug' = a
    /\ t_rand' = r
    /\ t_out' = SkinDiseaseTransform_call(t_img, a, r)
    /\ UNCHANGED <<t_img, prVars, appVars>>

NextTransform == Transform

SpecTransform == InitTransform /\ [][NextTransform]_vars

(***************************************************************************)
(* SpecPredict                                                             *)
(***************************************************************************)
InitPredict ==
  /\ p_image \in Images(1, 1)
  /\ p_names \in SeqsUpTo(LabelNames, MaxLabels)
  /\ p_outputs \in (SeqsUpTo(Logits, MaxClasses) \ {<<>>})
  /\ p_res = NotCalled
  /\ TrIdle /\ AppIdle

Analyse ==
  \E r0 \in RandDraws, r \in RandDraws :
    /\ p_res' = analyse(p_image, p_outputs, p_names, r0, r)
    /\ UNCHANGED <<p_image, p_names, p_outputs, trVars, appVars>>

NextPredict == Analyse

SpecPredict == InitPredict /\ [][NextPredict]_vars

(***************************************************************************)
(* Properties                                                              *)
(***************************************************************************)
InDownload(st) == st.pc \in {"download", "dl_wait", "dl_body"}

\* C1: once the weight file is on disk, no step of any call of download_model
\* fetches (gdown.download is not called) or writes the file, the file stays,
\* and every call that returns returns the same path.
C1_FetchOnlyOnce ==
  [][fileExists =>
       /\ fetchCount' = fetchCount
       /\ fileExists'
       /\ \A s \in Sessions :
            (InDownload(ss[s]) /\ ss'[s].pc = "load") => ss'[s].model_path = OUTPUT]_vars

\* a call of download_model ran its body on a populated path, after the one
\* fetch, and returned the path without fetching
C1_Witness ==
  /\ fetchCount = 1
  /\ fileExists
  /\ \E s \in Sessions : ss[s].fetch = "skipped" /\ ss[s].model_path = OUTPUT

\* C2: a call of download_model whose fetch failed returns no path: the
\* failure reaches the caller as an error.
C2_FetchFailureSurfaces ==
  \A s \in Sessions : ss[s].fetch = "failed" => ss[s].model_path = None

Analysed == "status" \in DOMAIN p_res
Diagnosed == Analysed /\ p_res.status = "ok"

\* the largest value of the items of a ConfidenceMap
MaxValue(items) ==
  LET vals == { items[i][2] : i \in 1..Len(items) }
  IN  CHOOSE v \in vals : \A u \in vals : ~FracLt(v, u)

\* C3: a ConfidenceMap whose maximum is below 0.95 is displayed as "Néant"
\* (the page's none/uncertain label), one whose maximum is 0.95 or more as the
\* (capitalized) label that holds the maximum.
C3_Threshold ==
  Diagnosed =>
    LET m == MaxValue(p_res.confidences)
    IN  /\ FracLt(m, Threshold) => p_res.display_class = "Néant"
        /\ ~FracLt(m, Threshold) =>
             \E i \in 1..Len(p_res.confidences) :
               /\ FracEq(p_res.confidences[i][2], m)
               /\ p_res.display_class = capitalize(p_res.confidences[i][1])

\* the boundary: a maximum of exactly 0.95 displayed as its label
C3_Witness ==
  /\ Diagnosed
  /\ FracEq(MaxValue(p_res.confidences), Threshold)
  /\ p_res.display_class \in {"Acne", "Eczema", "Rosacea"}

\* C4: predict on a label set and a classifier output of different lengths
\* fails with an error and returns no ConfidenceMap.
C4_MismatchRaises ==
  (Analysed /\ Len(p_names) # Len(p_outputs)) => p_res.status = "error"

NoDuplicates(L) == \A i, j \in 1..Len(L) : L[i] = L[j] => i = j

\* the forward pass ran and returned p_outputs: the transform before it
\* returned a tensor
ForwardRan == Analysed /\ Channels(p_image.mode) = Len(NORM_MEAN)

RECURSIVE SumNum(_, _)
SumNum(items, n) == IF n = 0 THEN 0 ELSE items[n][2][1] + SumNum(items, n - 1)

\* C5: for a label set L without repeats and the logits v of a forward pass
\* with Len(L) = Len(v), predict returns a map whose keys are L in L's order,
\* whose i-th value is exp(v[i]) / sum_j exp(v[j]), lies in [0, 1], and whose
\* values sum to 1.
C5_ConfidenceMap ==
  (ForwardRan /\ Len(p_names) = Len(p_outputs) /\ NoDuplicates(p_names)) =>
    /\ p_res.status = "ok"
    /\ Len(p_res.confidences) = Len(p_names)
    /\ \A i \in 1..Len(p_names) :
         LET item == p_res.confidences[i]
         IN  /\ item[1] = p_names[i]
             /\ FracEq(item[2], <<Exp(p_outputs[i]), SumExp(p_outputs, Len(p_outputs))>>)
             /\ item[2][2] > 0
             /\ 0 <= item[2][1] /\ item[2][1] <= item[2][2]
             /\ item[2][2] = p_res.confidences[1][2][2]
    /\ SumNum(p_res.confidences, Len(p_res.confidences)) = p_res.confidences[1][2][2]

\* two labels, two different logits, the second the larger
C5_Witness ==
  /\ ForwardRan /\ p_res.status = "ok"
  /\ Len(p_names) = 2 /\ Len(p_outputs) = 2 /\ NoDuplicates(p_names)
  /\ FracLt(p_res.confidences[1][2], p_res.confidences[2][2])

\* C6: a run that fails on the uploaded image (its bytes, its shape, the
\* numbers) ends in the except clause of main, reported by st.error.
C6_FailuresCaught ==
  \A s \in Sessions :
    ss[s].failure \in {"image", "analysis"} => ss[s].outcome = "analysis_failed"

Transformed == "ok" \in DOMAIN t_out

\* C7: for every image, the transform returns flipped = resized without
\* augmentation and flipped = the mirror of resized with it, whatever
\* torch.rand draws, and the mirror of flipped is resized again.
C7_FlipRelation ==
  Transformed =>
    /\ t_out.ok
    /\ ~t_aug => t_out.flipped = t_out.resized
    /\ t_aug => /\ t_out.flipped = hflip(t_out.resized)
                /\ hflip(t_out.flipped) = t_out.resized
    /\ \A r \in RandDraws : t_out = SkinDiseaseTransform_call(t_img, t_aug, r)

\* what holds of every call that returns (a 3-channel image): the flip
\* relation stated in C7
FlipRelationWhenReturned ==
  (Transformed /\ t_out.ok) =>
    /\ ~t_aug => t_out.flipped = t_out.resized
    /\ t_aug => /\ t_out.flipped = hflip(t_out.resized)
                /\ hflip(t_out.flipped) = t_out.resized
    /\ \A r \in RandDraws : t_out = SkinDiseaseTransform_call(t_img, t_aug, r)

\* C8: for every image of any size and mode, the transform succeeds with a
\* resized image of 224 x 224 and a tensor of 3 x 224 x 224.
C8_AlwaysThreeChannels ==
  Transformed =>
    /\ t_out.ok
    /\ t_out.resized.size = <<IMG_SIZE, IMG_SIZE>>
    /\ t_out.tensor.shape = <<3, IMG_SIZE, IMG_SIZE>>

\* C9: in one process the body of load_model completes at most once, and every
\* call of load_model that returned, returned the one cached object.
C9_InitializedOnce ==
  /\ initCount <= 1
  /\ Cardinality(returned) <= 1
  /\ \A s \in Sessions :
       ss[s].load # "none" => (lmCache # 0 /\ ss[s].model = lmCache)

\* two sessions missed the cache together: one computed the model, the other
\* waited for the lock and received the same object
C9_Witness ==
  \E s, t \in Sessions :
    /\ ss[s].load = "computed"
    /\ ss[t].load = "waited"
    /\ ss[s].model = ss[t].model
    /\ initCount = 1

\* C10 as stated: the mode flag of every network is eval from its
\* construction on, and the classifier is in eval mode at every forward pass.
C10_DefaultsToEval ==
  /\ \A i \in DOMAIN objects : ~objects[i].training
  /\ \A s \in Sessions :
       ss[s].pc = "predict" => ~objects[ss[s].model].training

\* C10 as amended: load_model sets the mode flag to eval before the network is
\* cached or returned, so the classifier is in eval mode, with its weights
\* loaded, at every forward pass; no inference step changes the classifier.
C10_EvalAtInference ==
  /\ [](\A s \in Sessions :
          ss[s].pc = "predict" =>
            /\ ss[s].model \in DOMAIN objects
            /\ ~objects[ss[s].model].training
            /\ objects[ss[s].model].loaded)
  /\ [](lmCache # 0 => (~objects[lmCache].training /\ objects[lmCache].loaded))
  /\ [][\A s \in Sessions :
          (ss[s].pc = "predict" /\ ss'[s].pc = "idle" /\ restarts' = restarts)
            => (objects' = objects /\ lmCache' = lmCache)]_vars

\* a forward pass about to run on the cached classifier
C10_Witness ==
  \E s \in Sessions :
    /\ ss[s].pc = "predict"
    /\ ss[s].model = lmCache
    /\ ~objects[lmCache].training
====
